---- MODULE Spec2Model ----
(***************************************************************************)
(* A model of the return analyzer of src/App.tsx: the App component's      *)
(* state, its input handlers, the data fetch, handleCalculate and the      *)
(* computation it defers with setTimeout.                                  *)
(*                                                                         *)
(* Numbers.  A JavaScript number is modelled as an exact fraction          *)
(* <<n, d>> with d > 0, or as NaN, written <<0, 0>>.                       *)
(* Closing prices are integers, so every window sum is exact; quotients    *)
(* are kept exact, i.e. IEEE-754 rounding of a quotient is not modelled.   *)
(* Numbers are compared with NumEq / NumLt / NumLe; a comparison with NaN  *)
(* is false.                                                               *)
(***************************************************************************)
EXTENDS Integers, Sequences, FiniteSets, TLC

----------------------------------------------------------------------------
(* Program constants *)

DaysPerYear == 365
MaxYears == 100
MaxTimePoints == 40
maxSamples == 1000

(* Bounds of the model *)

\* closing prices of the varying series lie in 1..MaxPrice
MaxPrice == 3
\* the short series have DaysPerYear - 1 .. DaysPerYear + MaxExtraDays points
MaxExtraDays == 2
\* the big series have DaysPerYear + maxSamples - 1 .. + MaxBigExtra points
MaxBigExtra == 1

----------------------------------------------------------------------------
(* JavaScript numbers *)

NaN == <<0, 0>>

\* null, where a value may be an object or null
null == [null |-> TRUE]

Min(a, b) == IF a <= b THEN a ELSE b
Max(a, b) == IF a >= b THEN a ELSE b

\* Math.floor(a / b) for integers a >= 0, b > 0
FloorDiv(a, b) == a \div b

Num(n) == <<n, 1>>
Zero == Num(0)

IsNaN(x) == x[2] = 0

\* (fractions over the same denominator compare as their numerators)
NumEq(x, y) ==
    /\ ~IsNaN(x) /\ ~IsNaN(y)
    /\ IF x[2] = y[2] THEN x[1] = y[1] ELSE x[1] * y[2] = y[1] * x[2]
NumLt(x, y) ==
    /\ ~IsNaN(x) /\ ~IsNaN(y)
    /\ IF x[2] = y[2] THEN x[1] < y[1] ELSE x[1] * y[2] < y[1] * x[2]
NumLe(x, y) ==
    /\ ~IsNaN(x) /\ ~IsNaN(y)
    /\ IF x[2] = y[2] THEN x[1] <= y[1] ELSE x[1] * y[2] <= y[1] * x[2]
NumGt(x, y) == NumLt(y, x)

RECURSIVE GCD(_, _)
GCD(a, b) == IF b = 0 THEN a ELSE GCD(b, a % b)

Abs(a) == IF a < 0 THEN -a ELSE a

\* the same number in lowest terms
Lowest(x) ==
    IF IsNaN(x) THEN NaN
    ELSE LET g == GCD(Abs(x[1]), x[2]) IN <<x[1] \div g, x[2] \div g>>

\* a / b of two numbers; 0/0 is NaN (x/0 for x # 0 is +-Infinity, which no
\* computation of the model produces)
NumDiv(x, y) ==
    IF IsNaN(x) \/ IsNaN(y) \/ y[1] = 0 THEN NaN
    ELSE IF y[1] > 0 THEN <<x[1] * y[2], x[2] * y[1]>>
    ELSE <<-(x[1] * y[2]), -(x[2] * y[1])>>

NumSub(x, y) ==
    IF IsNaN(x) \/ IsNaN(y) THEN NaN
    ELSE IF x[2] = y[2] THEN <<x[1] - y[1], x[2]>>
    ELSE <<x[1] * y[2] - y[1] * x[2], x[2] * y[2]>>

NumAdd(x, y) ==
    IF IsNaN(x) \/ IsNaN(y) THEN NaN
    ELSE IF x[2] = y[2] THEN <<x[1] + y[1], x[2]>>
    ELSE Lowest(<<x[1] * y[2] + y[1] * x[2], x[2] * y[2]>>)

NumMul(x, y) ==
    IF IsNaN(x) \/ IsNaN(y) THEN NaN
    ELSE <<x[1] * y[1], x[2] * y[2]>>

----------------------------------------------------------------------------
(* Arrays *)

\* arr.slice(start, end) for 0 <= start: the elements at the (0-based)
\* indices start .. end-1 that exist
Slice(arr, start, end) == SubSeq(arr, start + 1, Min(end, Len(arr)))

\* window.reduce((sum, day) => sum + day.close, 0) over the elements
\* lo..hi of w: the sum of the closes (integers, so the order of the
\* additions does not matter; halving keeps the recursion shallow)
RECURSIVE ReduceSum(_, _, _)
ReduceSum(w, lo, hi) ==
    IF lo > hi THEN 0
    ELSE IF lo = hi THEN w[lo]
    ELSE LET mid == (lo + hi) \div 2
         IN ReduceSum(w, lo, mid) + ReduceSum(w, mid + 1, hi)

\* window.reduce(...) / window.length
WindowMean(w) ==
    IF Len(w) = 0 THEN NaN ELSE Lowest(<<ReduceSum(w, 1, Len(w)), Len(w)>>)

Range(s) == {s[k] : k \in DOMAIN s}

\* the values of a finite set of numbers, in ascending order
RECURSIVE Ascending(_)
Ascending(S) ==
    IF S = {} THEN <<>>
    ELSE LET m == CHOOSE x \in S : \A y \in S : NumLe(x, y)
         IN <<m>> \o Ascending(S \ {m})

RECURSIVE Runs(_, _, _)
Runs(s, vals, k) ==
    IF k > Len(vals) THEN <<>>
    ELSE LET n == Cardinality({j \in DOMAIN s : s[j] = vals[k]})
         IN [j \in 1..n |-> vals[k]] \o Runs(s, vals, k + 1)

\* (mutant) the array is left in push order
SortAscMissing(s) == s

\* arr.sort((a, b) => a - b): the elements of s in ascending order, each as
\* often as it occurs in s
SortAsc(s) == Runs(s, Ascending(Range(s)), 1)

\* Math.max(...arr), Math.min(...arr) of a non-empty array
MaxOf(s) == CHOOSE x \in Range(s) : \A y \in Range(s) : NumLe(y, x)
MinOf(s) == CHOOSE x \in Range(s) : \A y \in Range(s) : NumLe(x, y)

\* arr.reduce((sum, r) => sum + r, 0) over the elements lo..hi of s: the
\* exact sum of the numbers
RECURSIVE ReduceAdd(_, _, _)
ReduceAdd(s, lo, hi) ==
    IF lo > hi THEN Zero
    ELSE IF lo = hi THEN s[lo]
    ELSE LET mid == (lo + hi) \div 2
         IN NumAdd(ReduceAdd(s, lo, mid), ReduceAdd(s, mid + 1, hi))

----------------------------------------------------------------------------
(* The computation deferred by handleCalculate (the setTimeout callback).  *)
(* cfg is what the closure captured: holdingPeriodDays, dcaBuy, dcaSell,   *)
(* dcaBuyDays, dcaSellDays; data is the captured stockData (the closes).   *)

\* what the model puts where a loop iteration pushes nothing
Skip == <<>>

\* (mutant) the sell averaging window is left out of the required window
requiredDaysHoldingOnly(cfg) == cfg.holdingPeriodDays

requiredDays(cfg) ==
    cfg.holdingPeriodDays + (IF cfg.dcaSell THEN cfg.dcaSellDays - 1 ELSE 0)

\* (mutant) the buy price is the close at the start index, averaging or not
BuyPriceWithoutAveraging(data, cfg, i) == Num(data[i + 1])

\* the buy price of start index i
BuyPrice(data, cfg, i) ==
    IF cfg.dcaBuy
    THEN WindowMean(Slice(data, i, i + cfg.dcaBuyDays))
    ELSE Num(data[i + 1])

\* the sell price of start index i
SellPrice(data, cfg, i) ==
    LET sellWindowStart == i + cfg.holdingPeriodDays - 1
    IN IF cfg.dcaSell
       THEN WindowMean(Slice(data, sellWindowStart, sellWindowStart + cfg.dcaSellDays))
       ELSE Num(data[sellWindowStart + 1])

\* ((sellPrice - buyPrice) / buyPrice) * 100
ReturnOnInvestment(buyPrice, sellPrice) ==
    Lowest(NumMul(NumDiv(NumSub(sellPrice, buyPrice), buyPrice), Num(100)))

\* (mutant) the returns loop stops one start index early
LastStartExclusive(data, cfg) == Len(data) - requiredDays(cfg) - 1

\* the last start index of the returns loop
LastStart(data, cfg) == Len(data) - requiredDays(cfg)

\* (mutant) the returns loop skips a start index only if its buy price is 0
ReturnsSkippingZeroOnly(data, cfg) ==
    LET each == [k \in 1..(LastStart(data, cfg) + 1) |->
                   LET buyPrice == BuyPrice(data, cfg, k - 1)
                       sellPrice == SellPrice(data, cfg, k - 1)
                   IN IF ~NumEq(buyPrice, Zero)
                      THEN ReturnOnInvestment(buyPrice, sellPrice)
                      ELSE Skip]
    IN SelectSeq(each, LAMBDA r : r # Skip)

\* the returns loop: one return per start index whose buy price is positive
Returns(data, cfg) ==
    LET each == [k \in 1..(LastStart(data, cfg) + 1) |->
                   LET buyPrice == BuyPrice(data, cfg, k - 1)
                       sellPrice == SellPrice(data, cfg, k - 1)
                   IN IF NumGt(buyPrice, Zero)
                      THEN ReturnOnInvestment(buyPrice, sellPrice)
                      ELSE Skip]
    IN SelectSeq(each, LAMBDA r : r # Skip)

\* (mutant) the sum of the returns is not divided by their number
SummaryWithoutDivision(returns) ==
    LET totalPeriods == Len(returns)
        profitablePeriods == Len(SelectSeq(returns, LAMBDA r : NumGt(r, Zero)))
    IN [ totalPeriods |-> totalPeriods,
         profitablePercentage |->
             Lowest(NumMul(NumDiv(Num(profitablePeriods), Num(totalPeriods)), Num(100))),
         averageReturn |-> Lowest(ReduceAdd(returns, 1, Len(returns))),
         bestReturn |-> MaxOf(returns),
         worstReturn |-> MinOf(returns) ]

\* (mutant) a return of 0 counts as profitable
SummaryCountingZero(returns) ==
    LET totalPeriods == Len(returns)
        profitablePeriods == Len(SelectSeq(returns, LAMBDA r : NumLe(Zero, r)))
    IN [ totalPeriods |-> totalPeriods,
         profitablePercentage |->
             Lowest(NumMul(NumDiv(Num(profitablePeriods), Num(totalPeriods)), Num(100))),
         averageReturn |-> Lowest(NumDiv(ReduceAdd(returns, 1, Len(returns)), Num(totalPeriods))),
         bestReturn |-> MaxOf(returns),
         worstReturn |-> MinOf(returns) ]

\* the summary statistics of a non-empty array of returns
Summary(returns) ==
    LET totalPeriods == Len(returns)
        profitablePeriods == Len(SelectSeq(returns, LAMBDA r : NumGt(r, Zero)))
    IN [ totalPeriods |-> totalPeriods,
         profitablePercentage |->
             Lowest(NumMul(NumDiv(Num(profitablePeriods), Num(totalPeriods)), Num(100))),
         averageReturn |-> Lowest(NumDiv(ReduceAdd(returns, 1, Len(returns)), Num(totalPeriods))),
         bestReturn |-> MaxOf(returns),
         worstReturn |-> MinOf(returns) ]

\* (mutant) the step is taken for twice as many time points
timePointStepHalved(cfg) ==
    Max(1, FloorDiv(cfg.holdingPeriodDays, 2 * Min(MaxTimePoints, cfg.holdingPeriodDays)))

\* timePointStep of the cone loop
timePointStep(cfg) ==
    LET numTimePoints == Min(MaxTimePoints, cfg.holdingPeriodDays)
    IN Max(1, FloorDiv(cfg.holdingPeriodDays, numTimePoints))

\* sampleStep of the start-position loop
sampleStep(data, cfg) ==
    Max(1, FloorDiv(Len(data) - cfg.holdingPeriodDays, maxSamples))

\* (mutant) the start-position loop runs one start index too far
SampledStartsOnePast(data, cfg) ==
    LET last == Len(data) - cfg.holdingPeriodDays + 1
    IN [k \in 1..(FloorDiv(last, sampleStep(data, cfg)) + 1) |->
          (k - 1) * sampleStep(data, cfg)]

\* the start indices i = 0, sampleStep, 2 sampleStep, ... <= length - holdingPeriodDays
\* that the inner loop of the cone visits
SampledStarts(data, cfg) ==
    LET last == Len(data) - cfg.holdingPeriodDays
    IN [k \in 1..(FloorDiv(last, sampleStep(data, cfg)) + 1) |->
          (k - 1) * sampleStep(data, cfg)]

\* (mutant) the sell price is the close of the day after the checkpoint
PartialReturnsFromNextDay(data, starts, buyPrices, dayOffset) ==
    LET each == [k \in DOMAIN starts |->
                   LET sellIndex == starts[k] + dayOffset + 1
                   IN IF sellIndex < Len(data) /\ NumGt(buyPrices[k], Zero)
                      THEN ReturnOnInvestment(buyPrices[k], Num(data[sellIndex + 1]))
                      ELSE Skip]
    IN SelectSeq(each, LAMBDA r : r # Skip)

\* partialReturns of one checkpoint, in push order. buyPrices[k] is the buy
\* price of starts[k]; the code recomputes it at every checkpoint, with the
\* same result.
PartialReturns(data, starts, buyPrices, dayOffset) ==
    LET each == [k \in DOMAIN starts |->
                   LET sellIndex == starts[k] + dayOffset
                   IN IF sellIndex < Len(data) /\ NumGt(buyPrices[k], Zero)
                      THEN ReturnOnInvestment(buyPrices[k], Num(data[sellIndex + 1]))
                      ELSE Skip]
    IN SelectSeq(each, LAMBDA r : r # Skip)

\* getPercentile(p) on the sorted partialReturns, p given in percent:
\* floor(length * p) is floor(length * pct / 100) for the five p used
getPercentile(sorted, pct) ==
    LET index == FloorDiv(Len(sorted) * pct, 100)
    IN sorted[Min(index, Len(sorted) - 1) + 1]

\* the point pushed for a checkpoint with a non-empty partialReturns
ConePoint(cfg, dayOffset, partialReturns) ==
    LET sorted == SortAsc(partialReturns)
    IN [ timePoint |-> Lowest(NumDiv(Num(dayOffset), Num(cfg.holdingPeriodDays))),
         p10 |-> getPercentile(sorted, 10),
         p25 |-> getPercentile(sorted, 25),
         p50 |-> getPercentile(sorted, 50),
         p75 |-> getPercentile(sorted, 75),
         p90 |-> getPercentile(sorted, 90) ]

\* (mutant) the checkpoint loop starts at timePointStep instead of 0
CheckpointsFromStep(cfg) ==
    [k \in 1..FloorDiv(cfg.holdingPeriodDays, timePointStep(cfg)) |->
       k * timePointStep(cfg)]

\* the dayOffset values 0, timePointStep, 2 timePointStep, ...
\* <= holdingPeriodDays that the checkpoint loop visits
Checkpoints(cfg) ==
    [k \in 1..(FloorDiv(cfg.holdingPeriodDays, timePointStep(cfg)) + 1) |->
       (k - 1) * timePointStep(cfg)]

\* the checkpoint loop: coneData, one point per checkpoint with a partial
\* return, and in partials the partialReturns of every checkpoint, in push
\* order. (SubSeq(f, 1, Len(f)) is f, tabulated once.)
Cone(data, cfg) ==
    LET starts == SampledStarts(data, cfg)
        buyPrices == SubSeq([k \in DOMAIN starts |-> BuyPrice(data, cfg, starts[k])],
                            1, Len(starts))
        checkpoints == Checkpoints(cfg)
        each == SubSeq([k \in DOMAIN checkpoints |->
                          LET partialReturns ==
                                  PartialReturns(data, starts, buyPrices, checkpoints[k])
                          IN [ partialReturns |-> partialReturns,
                               point |-> IF Len(partialReturns) > 0
                                         THEN ConePoint(cfg, checkpoints[k], partialReturns)
                                         ELSE null ]],
                       1, Len(checkpoints))
        pushed == SelectSeq(each, LAMBDA c : Len(c.partialReturns) > 0)
    IN [ coneData |-> [k \in DOMAIN pushed |-> pushed[k].point],
         partials |-> [k \in DOMAIN each |-> each[k].partialReturns] ]

----------------------------------------------------------------------------
(* Input texts and parseInt *)

Digits == <<"0", "1", "2", "3", "4", "5", "6", "7", "8", "9">>
IsDigit(c) == \E k \in 1..10 : Digits[k] = c
DigitValue(c) == (CHOOSE k \in 1..10 : Digits[k] = c) - 1

\* the value of the longest run of digits of text that starts at position k,
\* given the value acc of the digits read so far
RECURSIVE ParseDigits(_, _, _)
ParseDigits(text, k, acc) ==
    IF k > Len(text) \/ ~IsDigit(text[k]) THEN acc
    ELSE ParseDigits(text, k + 1, 10 * acc + DigitValue(text[k]))

\* parseInt(text, 10) of a text without leading white space: an optional
\* sign, then the leading digits; NaN if there is no digit there
parseInt(text) ==
    LET signed == Len(text) > 0 /\ text[1] \in {"-", "+"}
        first == IF signed THEN 2 ELSE 1
    IN IF first > Len(text) \/ ~IsDigit(text[first]) THEN NaN
       ELSE IF signed /\ text[1] = "-" THEN Num(-ParseDigits(text, first, 0))
       ELSE Num(ParseDigits(text, first, 0))

\* the integer a number is, read only where the number is one (0 for NaN,
\* a value the code never reads)
ToInt(x) == x[1]

----------------------------------------------------------------------------
(* Price series: the closes of stockData, in date order *)

\* n closes, all c
Flat(n, c) == [i \in 1..n |-> c]

\* n closes that repeat 1, 2, 3, .. with period 5, none above MaxPrice
Wave(n) == [i \in 1..n |-> 1 + (((i - 1) % 5) % MaxPrice)]

\* Wave(n) with a zero close first and a negative close second
BadStart(n) == [i \in 1..n |-> IF i = 1 THEN 0 ELSE IF i = 2 THEN -1 ELSE Wave(n)[i]]

\* n closes that rise from 100 on the first day to 105 on the last
Rise(n) == [i \in 1..n |-> 100 + (5 * (i - 1)) \div (n - 1)]

\* the series of length n
SeriesOfLength(n) == {Flat(n, MaxPrice), Flat(n, 0), Wave(n), BadStart(n)}

\* a year of data, give or take: too short by a day, exact, and longer
ShortSeries ==
    UNION {SeriesOfLength(n) : n \in (DaysPerYear - 1)..(DaysPerYear + MaxExtraDays)}
        \cup {Rise(DaysPerYear)}

\* two years of data, give or take (enough for a sell window after a year)
MidSeries ==
    {Wave(2 * DaysPerYear - 1), Wave(2 * DaysPerYear - 1 + MaxExtraDays),
     Flat(2 * DaysPerYear - 1 + MaxExtraDays, MaxPrice)}

\* a year of data and maxSamples - 1, or maxSamples, more start positions
BigSeries == {Wave(DaysPerYear + maxSamples - 1 + e) : e \in 0..MaxBigExtra}

\* eight years of data, exactly and a little more: 8 * 365 days is the
\* shortest holding period that is a multiple of its timePointStep
LongSeries == {Wave(8 * DaysPerYear), Wave(8 * DaysPerYear + MaxExtraDays)}

\* the texts typed into the holding period field, and into a DCA period field
HoldingTexts == {<<"1", "0">>, <<"1">>, <<"2">>, <<"0">>, <<"1", "0", "1">>, <<>>}
PeriodTexts == {<<"1">>, <<"2">>, <<"0">>}

----------------------------------------------------------------------------
(* The App component *)

VARIABLES
    stockData,      \* the closes of the loaded rows
    holdingPeriod, dcaBuy, dcaSell, dcaBuyPeriod, dcaSellPeriod,
    results, isLoadingData, isCalculating, error,
    timer,          \* the pending setTimeout callback: what it captured, or null
    lastOp,         \* history: the handler that ran last
    lastRun         \* history: null, or right after a calculation what it
                    \* captured (cfg) and computed: the returns array, the
                    \* start indices the cone sampled, and the partialReturns
                    \* array of every checkpoint

vars == <<stockData, holdingPeriod, dcaBuy, dcaSell, dcaBuyPeriod, dcaSellPeriod,
          results, isLoadingData, isCalculating, error, timer, lastOp, lastRun>>

inputs == <<holdingPeriod, dcaBuy, dcaSell, dcaBuyPeriod, dcaSellPeriod>>

Error(message) == [message |-> message]

FetchFailed == "Failed to load or parse stock data"
InvalidHoldingPeriod == "Please enter a valid holding period between 1 and 100 years."
InvalidDcaPeriod == "DCA periods must be at least 1 year."
DcaTooLong == "DCA period cannot be longer than the holding period."
NotEnoughData == "Not enough historical data for the selected periods."
NoReturns == "Could not calculate any returns. Please check the data and input parameters."

\* the state after construction (useState), before the mount effect ran
Init ==
    /\ stockData = <<>>
    /\ holdingPeriod = <<"1", "0">>
    /\ dcaBuy = FALSE
    /\ dcaSell = FALSE
    /\ dcaBuyPeriod = <<"1">>
    /\ dcaSellPeriod = <<"1">>
    /\ results = null
    /\ isLoadingData = TRUE
    /\ isCalculating = FALSE
    /\ error = null
    /\ timer = null
    /\ lastOp = "mount"
    /\ lastRun = null

\* the form (inputs and button) is rendered
FormShown == ~isLoadingData /\ ~(error # null /\ Len(stockData) = 0)

\* fetchStockData: the rows parsed and sorted, or the fetch failed
FetchStockData(family) ==
    /\ isLoadingData
    /\ \/ \E series \in family :
             /\ stockData' = series
             /\ error' = error
       \/ /\ error' = Error(FetchFailed)
          /\ stockData' = stockData
    /\ isLoadingData' = FALSE
    /\ lastOp' = "fetch"
    /\ lastRun' = null
    /\ UNCHANGED <<inputs, results, isCalculating, timer>>

\* onChange of the holding period field
SetHoldingPeriod(value) ==
    /\ FormShown /\ ~isCalculating
    /\ holdingPeriod' = value
    /\ lastOp' = "input"
    /\ lastRun' = null
    /\ UNCHANGED <<stockData, dcaBuy, dcaSell, dcaBuyPeriod, dcaSellPeriod,
                   results, isLoadingData, isCalculating, error, timer>>

\* onChange of the DCA check boxes (never disabled)
SetDcaBuy(value) ==
    /\ FormShown
    /\ dcaBuy' = value
    /\ lastOp' = "input"
    /\ lastRun' = null
    /\ UNCHANGED <<stockData, holdingPeriod, dcaSell, dcaBuyPeriod, dcaSellPeriod,
                   results, isLoadingData, isCalculating, error, timer>>

SetDcaSell(value) ==
    /\ FormShown
    /\ dcaSell' = value
    /\ lastOp' = "input"
    /\ lastRun' = null
    /\ UNCHANGED <<stockData, holdingPeriod, dcaBuy, dcaBuyPeriod, dcaSellPeriod,
                   results, isLoadingData, isCalculating, error, timer>>

\* onChange of the DCA period fields (disabled while calculating or unchecked)
SetDcaBuyPeriod(value) ==
    /\ FormShown /\ ~isCalculating /\ dcaBuy
    /\ dcaBuyPeriod' = value
    /\ lastOp' = "input"
    /\ lastRun' = null
    /\ UNCHANGED <<stockData, holdingPeriod, dcaBuy, dcaSell, dcaSellPeriod,
                   results, isLoadingData, isCalculating, error, timer>>

SetDcaSellPeriod(value) ==
    /\ FormShown /\ ~isCalculating /\ dcaSell
    /\ dcaSellPeriod' = value
    /\ lastOp' = "input"
    /\ lastRun' = null
    /\ UNCHANGED <<stockData, holdingPeriod, dcaBuy, dcaSell, dcaBuyPeriod,
                   results, isLoadingData, isCalculating, error, timer>>

\* (mutant) the validation without the check of the DCA periods against the
\* holding period
ValidationErrorNoLengthCheck(periodYears, dcaBuyYears, dcaSellYears) ==
    IF IsNaN(periodYears) \/ NumLt(periodYears, Num(1)) \/ NumGt(periodYears, Num(MaxYears))
    THEN Error(InvalidHoldingPeriod)
    ELSE IF \/ (dcaBuy /\ (IsNaN(dcaBuyYears) \/ NumLt(dcaBuyYears, Num(1))))
            \/ (dcaSell /\ (IsNaN(dcaSellYears) \/ NumLt(dcaSellYears, Num(1))))
    THEN Error(InvalidDcaPeriod)
    ELSE null

\* the validation of handleCalculate: the error it sets, or null
ValidationError(periodYears, dcaBuyYears, dcaSellYears) ==
    IF IsNaN(periodYears) \/ NumLt(periodYears, Num(1)) \/ NumGt(periodYears, Num(MaxYears))
    THEN Error(InvalidHoldingPeriod)
    ELSE IF \/ (dcaBuy /\ (IsNaN(dcaBuyYears) \/ NumLt(dcaBuyYears, Num(1))))
            \/ (dcaSell /\ (IsNaN(dcaSellYears) \/ NumLt(dcaSellYears, Num(1))))
    THEN Error(InvalidDcaPeriod)
    ELSE IF \/ (dcaBuy /\ NumGt(dcaBuyYears, periodYears))
            \/ (dcaSell /\ NumGt(dcaSellYears, periodYears))
    THEN Error(DcaTooLong)
    ELSE null

\* what the setTimeout callback of handleCalculate captures
Closure(periodYears, dcaBuyYears, dcaSellYears) ==
    [ holdingPeriodDays |-> ToInt(NumMul(periodYears, Num(DaysPerYear))),
      dcaBuy |-> dcaBuy,
      dcaSell |-> dcaSell,
      dcaBuyDays |-> ToInt(NumMul(dcaBuyYears, Num(DaysPerYear))),
      dcaSellDays |-> ToInt(NumMul(dcaSellYears, Num(DaysPerYear))) ]

\* (mutant) a rejected click also clears the results
handleCalculateClearingResults ==
    /\ FormShown /\ ~isCalculating
    /\ LET periodYears == parseInt(holdingPeriod)
           dcaBuyYears == parseInt(dcaBuyPeriod)
           dcaSellYears == parseInt(dcaSellPeriod)
           invalid == ValidationError(periodYears, dcaBuyYears, dcaSellYears)
       IN IF invalid # null
          THEN /\ error' = invalid
               /\ results' = null
               /\ UNCHANGED <<isCalculating, timer>>
          ELSE /\ error' = null
               /\ isCalculating' = TRUE
               /\ results' = null
               /\ timer' = Closure(periodYears, dcaBuyYears, dcaSellYears)
    /\ lastOp' = "handleCalculate"
    /\ lastRun' = null
    /\ UNCHANGED <<stockData, inputs, isLoadingData>>

\* onClick of the Calculate button (disabled while calculating)
handleCalculate ==
    /\ FormShown /\ ~isCalculating
    /\ LET periodYears == parseInt(holdingPeriod)
           dcaBuyYears == parseInt(dcaBuyPeriod)
           dcaSellYears == parseInt(dcaSellPeriod)
           invalid == ValidationError(periodYears, dcaBuyYears, dcaSellYears)
       IN IF invalid # null
          THEN /\ error' = invalid
               /\ UNCHANGED <<isCalculating, results, timer>>
          ELSE /\ error' = null
               /\ isCalculating' = TRUE
               /\ results' = null
               /\ timer' = Closure(periodYears, dcaBuyYears, dcaSellYears)
    /\ lastOp' = "handleCalculate"
    /\ lastRun' = null
    /\ UNCHANGED <<stockData, inputs, isLoadingData>>

\* the results the callback sets when there is a return
Results(returns, coneData) ==
    LET summary == Summary(returns)
    IN [ profitablePercentage |-> summary.profitablePercentage,
         averageReturn |-> summary.averageReturn,
         bestReturn |-> summary.bestReturn,
         worstReturn |-> summary.worstReturn,
         totalPeriods |-> summary.totalPeriods,
         coneData |-> coneData ]

\* (mutant) the "not enough data" path returns without setIsCalculating(false)
CalculationLeftCalculating ==
    /\ timer # null
    /\ LET cfg == timer
           data == stockData
       IN IF Len(data) < requiredDays(cfg)
          THEN /\ error' = Error(NotEnoughData)
               /\ results' = results
               /\ isCalculating' = isCalculating
               /\ lastRun' = [cfg |-> cfg, returns |-> <<>>, starts |-> <<>>, partials |-> <<>>]
          ELSE LET returns == Returns(data, cfg)
               IN IF Len(returns) = 0
                  THEN /\ error' = Error(NoReturns)
                       /\ results' = results
                       /\ isCalculating' = FALSE
                       /\ lastRun' = [cfg |-> cfg, returns |-> returns,
                                      starts |-> <<>>, partials |-> <<>>]
                  ELSE LET cone == Cone(data, cfg)
                       IN /\ results' = Results(returns, cone.coneData)
                          /\ error' = error
                          /\ isCalculating' = FALSE
                          /\ lastRun' = [cfg |-> cfg, returns |-> returns,
                                         starts |-> SampledStarts(data, cfg),
                                         partials |-> cone.partials]
    /\ timer' = null
    /\ lastOp' = "Calculation"
    /\ UNCHANGED <<stockData, inputs, isLoadingData>>

\* the setTimeout callback of handleCalculate
Calculation ==
    /\ timer # null
    /\ LET cfg == timer
           data == stockData
       IN IF Len(data) < requiredDays(cfg)
          THEN /\ error' = Error(NotEnoughData)
               /\ results' = results
               /\ lastRun' = [cfg |-> cfg, returns |-> <<>>, starts |-> <<>>, partials |-> <<>>]
          ELSE LET returns == Returns(data, cfg)
               IN IF Len(returns) = 0
                  THEN /\ error' = Error(NoReturns)
                       /\ results' = results
                       /\ lastRun' = [cfg |-> cfg, returns |-> returns,
                                      starts |-> <<>>, partials |-> <<>>]
                  ELSE LET cone == Cone(data, cfg)
                       IN /\ results' = Results(returns, cone.coneData)
                          /\ error' = error
                          /\ lastRun' = [cfg |-> cfg, returns |-> returns,
                                         starts |-> SampledStarts(data, cfg),
                                         partials |-> cone.partials]
    /\ isCalculating' = FALSE
    /\ timer' = null
    /\ lastOp' = "Calculation"
    /\ UNCHANGED <<stockData, inputs, isLoadingData>>

Next ==
    \/ FetchStockData(ShortSeries \cup {<<>>})
    \/ \E value \in HoldingTexts : SetHoldingPeriod(value)
    \/ \E value \in BOOLEAN : SetDcaBuy(value)
    \/ \E value \in BOOLEAN : SetDcaSell(value)
    \/ \E value \in PeriodTexts : SetDcaBuyPeriod(value)
    \/ \E value \in PeriodTexts : SetDcaSellPeriod(value)
    \/ handleCalculate
    \/ Calculation

Spec == Init /\ [][Next]_vars

\* the step in which the timer of setTimeout fires and the pending callback
\* runs to its end, whatever it sets: of the actions of Next, Calculation is
\* the only one that takes timer from a closure to null (and that sets
\* lastOp to "Calculation"), and it is enabled whenever timer is a closure
TimerFires ==
    /\ timer # null
    /\ timer' = null
    /\ lastOp' = "Calculation"
    /\ UNCHANGED <<stockData, inputs, isLoadingData>>
    /\ (isCalculating' = FALSE \/ isCalculating' # FALSE)
    /\ (results' = results \/ results' # results)
    /\ (error' = error \/ error' # error)
    /\ (lastRun' = lastRun \/ lastRun' # lastRun)

\* a callback scheduled with setTimeout is eventually run
SpecFair == Spec /\ WF_vars(TimerFires)

----------------------------------------------------------------------------
(* The calculation on longer series.  The form is in a state that the     *)
(* handlers above reach (data loaded, the DCA boxes checked or not, a     *)
(* holding period typed), and from there Calculate is clicked and the     *)
(* deferred computation runs.                                             *)

InitLong ==
    /\ \/ /\ stockData \in MidSeries
          /\ dcaBuy \in BOOLEAN
          /\ dcaSell \in BOOLEAN
          /\ holdingPeriod \in {<<"1">>, <<"2">>, <<"1", "0">>}
       \/ /\ stockData \in BigSeries
          /\ dcaBuy = FALSE
          /\ dcaSell = FALSE
          /\ holdingPeriod \in {<<"1">>, <<"2">>, <<"1", "0">>}
       \/ /\ stockData \in LongSeries
          /\ dcaBuy \in BOOLEAN
          /\ dcaSell = FALSE
          /\ holdingPeriod = <<"8">>
    /\ dcaBuyPeriod = <<"1">>
    /\ dcaSellPeriod = <<"1">>
    /\ results = null
    /\ isLoadingData = FALSE
    /\ isCalculating = FALSE
    /\ error = null
    /\ timer = null
    /\ lastOp = "input"
    /\ lastRun = null

NextLong == handleCalculate \/ Calculation

SpecLong == InitLong /\ [][NextLong]_vars

----------------------------------------------------------------------------
(* Properties *)

\* the cone of the results
coneData == results.coneData

\* C1: whenever a calculation produced a non-empty cone, its last point has
\* timePoint exactly 1.
C1_LastPointAtOne ==
    (results # null /\ Len(coneData) > 0)
        => NumEq(coneData[Len(coneData)].timePoint, Num(1))

\* C2: in every cone produced, timePoint is strictly increasing, the first
\* point (if any) has timePoint 0, and the checkpoint dayOffset = 0 recorded
\* a partial return whenever a checkpoint did.
C2_IncreasingFromZero ==
    /\ results # null =>
          /\ \A k \in 1..(Len(coneData) - 1) :
                NumLt(coneData[k].timePoint, coneData[k + 1].timePoint)
          /\ Len(coneData) > 0 => NumEq(coneData[1].timePoint, Zero)
    /\ (lastRun # null /\ \E k \in DOMAIN lastRun.partials : Len(lastRun.partials[k]) > 0)
          => Len(lastRun.partials[1]) > 0

C2_Witness ==
    /\ results # null
    /\ lastRun # null
    /\ Len(coneData) >= 2
    /\ \E k \in DOMAIN lastRun.partials : k > 1 /\ Len(lastRun.partials[k]) > 0

\* the number of elements of s below v, and not above v
Below(s, v) == Cardinality({j \in DOMAIN s : NumLt(s[j], v)})
NotAbove(s, v) == Cardinality({j \in DOMAIN s : NumLe(s[j], v)})

\* v is the element at the (0-based) index of s sorted ascending
IsAtSortedIndex(s, index, v) == Below(s, v) <= index /\ index < NotAbove(s, v)

\* the (0-based) index of the percentile pct of n sorted values
PercentileIndex(n, pct) == Min((n * pct) \div 100, n - 1)

\* the checkpoints of the last calculation that recorded a partial return,
\* in order: coneData[k] is the point of checkpoint Recorded[k]
Recorded == SelectSeq([k \in DOMAIN lastRun.partials |-> k],
                      LAMBDA k : Len(lastRun.partials[k]) > 0)

\* C3: every cone point has p10 <= p25 <= p50 <= p75 <= p90, each the
\* element at index min(floor(len * p), len - 1) of the checkpoint's partial
\* returns sorted ascending.
C3_PercentilesOrdered ==
    /\ results # null =>
          \A k \in DOMAIN coneData :
             /\ NumLe(coneData[k].p10, coneData[k].p25)
             /\ NumLe(coneData[k].p25, coneData[k].p50)
             /\ NumLe(coneData[k].p50, coneData[k].p75)
             /\ NumLe(coneData[k].p75, coneData[k].p90)
    /\ (results # null /\ lastRun # null) =>
          /\ Len(Recorded) = Len(coneData)
          /\ \A k \in DOMAIN coneData :
                LET s == lastRun.partials[Recorded[k]]
                    at(pct, v) == IsAtSortedIndex(s, PercentileIndex(Len(s), pct), v)
                IN /\ at(10, coneData[k].p10)
                   /\ at(25, coneData[k].p25)
                   /\ at(50, coneData[k].p50)
                   /\ at(75, coneData[k].p75)
                   /\ at(90, coneData[k].p90)

\* a cone point over many partial returns whose percentiles differ
C3_Witness ==
    /\ results # null
    /\ lastRun # null
    /\ \E k \in DOMAIN coneData :
          /\ Len(lastRun.partials[Recorded[k]]) > 100
          /\ NumLt(coneData[k].p10, coneData[k].p50)
          /\ NumLt(coneData[k].p50, coneData[k].p90)

\* the window one return needs, as the specification of the analysis states it
RequiredWindow(cfg) ==
    cfg.holdingPeriodDays + (IF cfg.dcaSell THEN cfg.dcaSellDays - 1 ELSE 0)

\* the buy price of start index i is positive: the closes of its buy window
\* (the close at i without buy averaging) have a positive sum
BuyPositive(data, cfg, i) ==
    IF cfg.dcaBuy
    THEN ReduceSum(data, i + 1, Min(i + cfg.dcaBuyDays, Len(data))) > 0
    ELSE data[i + 1] > 0

\* the candidate start indices of the last calculation
Candidates == 0..(Len(stockData) - RequiredWindow(lastRun.cfg))

\* C4: a calculation on N >= requiredWindow closes in which every buy
\* price is positive yields N - requiredWindow + 1 returns, and that number
\* is totalPeriods.
C4_SampleCount ==
    (/\ lastRun # null
     /\ Len(stockData) >= RequiredWindow(lastRun.cfg)
     /\ \A i \in Candidates : BuyPositive(stockData, lastRun.cfg, i))
        => /\ Len(lastRun.returns) = Len(stockData) - RequiredWindow(lastRun.cfg) + 1
           /\ results # null
           /\ results.totalPeriods = Len(stockData) - RequiredWindow(lastRun.cfg) + 1

\* buy and sell averaging both on, more than one return
C4_Witness ==
    /\ lastRun # null
    /\ lastRun.cfg.dcaBuy /\ lastRun.cfg.dcaSell
    /\ Len(stockData) > RequiredWindow(lastRun.cfg)
    /\ \A i \in Candidates : BuyPositive(stockData, lastRun.cfg, i)
    /\ results # null
    /\ results.totalPeriods > 1

\* C5: a calculation on fewer closes than requiredWindow ends with the
\* "not enough data" error, no results, and nothing computed.
C5_InsufficientData ==
    (lastRun # null /\ Len(stockData) < RequiredWindow(lastRun.cfg))
        => /\ error = Error(NotEnoughData)
           /\ results = null
           /\ ~isCalculating
           /\ timer = null
           /\ lastRun.returns = <<>>
           /\ lastRun.partials = <<>>

\* one close short of the window
C5_Witness ==
    /\ lastRun # null
    /\ Len(stockData) = RequiredWindow(lastRun.cfg) - 1
    /\ error = Error(NotEnoughData)

\* the configuration in the form is valid: a holding period of 1..100
\* years, and every enabled DCA period at least 1 year and no longer than
\* the holding period
InRange(x, lo, hi) == ~IsNaN(x) /\ NumLe(Num(lo), x) /\ NumLe(x, Num(hi))

ValidConfiguration ==
    LET years == parseInt(holdingPeriod)
    IN /\ InRange(years, 1, MaxYears)
       /\ dcaBuy => InRange(parseInt(dcaBuyPeriod), 1, ToInt(years))
       /\ dcaSell => InRange(parseInt(dcaSellPeriod), 1, ToInt(years))

ValidationErrors ==
    {Error(InvalidHoldingPeriod), Error(InvalidDcaPeriod), Error(DcaTooLong)}

\* C6: a click on Calculate with an invalid configuration sets a validation
\* error and starts nothing: no callback is scheduled, isCalculating is not
\* set, and no calculation has touched the series.
C6_InvalidRejected ==
    (lastOp = "handleCalculate" /\ ~ValidConfiguration)
        => /\ error \in ValidationErrors
           /\ timer = null
           /\ ~isCalculating
           /\ lastRun = null

\* a sell DCA period longer than a valid holding period, rejected
C6_Witness ==
    /\ lastOp = "handleCalculate"
    /\ InRange(parseInt(holdingPeriod), 1, MaxYears)
    /\ dcaSell
    /\ NumGt(parseInt(dcaSellPeriod), parseInt(holdingPeriod))
    /\ ~dcaBuy
    /\ error = Error(DcaTooLong)
    /\ Len(stockData) > 0

\* C7: a calculation on N >= requiredWindow closes ends with the "no
\* returns" error, no results and no cone exactly if no candidate start index
\* has a positive buy price; otherwise it produces results over the start
\* indices that have one.
C7_NoValidSamples ==
    (lastRun # null /\ Len(stockData) >= RequiredWindow(lastRun.cfg))
        => IF \A i \in Candidates : ~BuyPositive(stockData, lastRun.cfg, i)
           THEN /\ error = Error(NoReturns)
                /\ results = null
                /\ ~isCalculating
                /\ lastRun.partials = <<>>
           ELSE /\ error = null
                /\ results # null
                /\ results.totalPeriods =
                      Cardinality({i \in Candidates : BuyPositive(stockData, lastRun.cfg, i)})

\* several candidate start indices, none with a positive buy price
C7_Witness ==
    /\ lastRun # null
    /\ Len(stockData) > RequiredWindow(lastRun.cfg)
    /\ \A i \in Candidates : ~BuyPositive(stockData, lastRun.cfg, i)
    /\ \E i \in Candidates : stockData[i + 1] < 0
    /\ error = Error(NoReturns)

IsFlat == Len(stockData) > 0 /\ \A k \in DOMAIN stockData : stockData[k] = stockData[1] /\ stockData[1] > 0

C10_AtMostMaxSamples ==
    lastRun # null =>
        /\ Len(lastRun.starts) <= maxSamples
        /\ \A k \in DOMAIN lastRun.partials : Len(lastRun.partials[k]) <= maxSamples

\* the sample of start index i as the specification of the analysis states
\* it: (sellPrice - buyPrice) / buyPrice * 100 with buyPrice the mean of
\* prices[i .. i+buyWindow-1] and sellPrice the mean of
\* prices[s .. s+sellWindow-1], s = i + holdingDurationDays - 1 (a window of
\* one price without averaging), as one fraction over the sums of the windows
ExpectedSample(data, cfg, i) ==
    LET buyWindow == IF cfg.dcaBuy THEN cfg.dcaBuyDays ELSE 1
        sellWindow == IF cfg.dcaSell THEN cfg.dcaSellDays ELSE 1
        s == i + cfg.holdingPeriodDays - 1
        buySum == ReduceSum(data, i + 1, i + buyWindow)
        sellSum == ReduceSum(data, s + 1, s + sellWindow)
    IN Lowest(<<(sellSum * buyWindow - buySum * sellWindow) * 100, buySum * sellWindow>>)

\* the samples of the start indices 0 .. N - requiredWindow that have a
\* positive buy price, in increasing order of the start index
ExpectedSamples(data, cfg) ==
    LET emitted == SelectSeq([k \in 1..(Len(data) - RequiredWindow(cfg) + 1) |-> k - 1],
                             LAMBDA i : BuyPositive(data, cfg, i))
    IN [k \in DOMAIN emitted |-> ExpectedSample(data, cfg, emitted[k])]

\* the returns loop has no averaging in the captured configuration
NoAveraging(cfg) == ~cfg.dcaBuy /\ ~cfg.dcaSell

AllPositive == Len(stockData) > 0 /\ \A k \in DOMAIN stockData : stockData[k] > 0

\* the percentiles of a cone point are all 0
AllZero(point) ==
    /\ NumEq(point.p10, Zero)
    /\ NumEq(point.p25, Zero)
    /\ NumEq(point.p50, Zero)
    /\ NumEq(point.p75, Zero)
    /\ NumEq(point.p90, Zero)

\* the partial returns of the checkpoint dayOffset = 0
AtStart == lastRun.partials[1]

\* C13 (as stated): after a calculation on a series of positive prices, every
\* partial return recorded at dayOffset = 0 is 0 and the cone point with
\* timePoint 0 has p10 = p25 = p50 = p75 = p90 = 0, with buy averaging or
\* without.
C13_ZeroAtStart ==
    (results # null /\ lastRun # null /\ AllPositive) =>
        /\ Len(AtStart) > 0
        /\ \A k \in DOMAIN AtStart : NumEq(AtStart[k], Zero)
        /\ NumEq(coneData[1].timePoint, Zero)
        /\ AllZero(coneData[1])

\* the partial return at dayOffset = 0 of start index i with buy averaging:
\* (price[i] - mean) / mean * 100 for the mean of prices[i .. i+buyWindow-1]
StartAgainstMean(data, cfg, i) ==
    LET buySum == ReduceSum(data, i + 1, i + cfg.dcaBuyDays)
    IN Lowest(<<(data[i + 1] * cfg.dcaBuyDays - buySum) * 100, buySum>>)

\* C13 (amended): after a calculation on a series of positive prices the
\* checkpoint dayOffset = 0 recorded a partial return for every sampled start
\* index and the cone has a first point with timePoint 0. Without buy
\* averaging every such partial return is 0 and the point's percentiles are
\* all 0; with buy averaging the partial return of start index i is
\* (price[i] - mean) / mean * 100 for the mean of the buy window, which is 0
\* only where price[i] equals that mean.
C13_ZeroAtStartWithoutAveraging ==
    (results # null /\ lastRun # null /\ AllPositive) =>
        /\ Len(AtStart) = Len(lastRun.starts)
        /\ Len(AtStart) > 0
        /\ NumEq(coneData[1].timePoint, Zero)
        /\ IF lastRun.cfg.dcaBuy
           THEN \A k \in DOMAIN AtStart :
                   AtStart[k] = StartAgainstMean(stockData, lastRun.cfg, lastRun.starts[k])
           ELSE /\ \A k \in DOMAIN AtStart : NumEq(AtStart[k], Zero)
                /\ AllZero(coneData[1])

\* no buy averaging, many start indices, on prices that vary
C13_Witness ==
    /\ results # null
    /\ lastRun # null
    /\ AllPositive
    /\ ~IsFlat
    /\ ~lastRun.cfg.dcaBuy
    /\ Len(AtStart) > 100
    /\ AllZero(coneData[1])
    /\ \E k \in DOMAIN coneData : ~AllZero(coneData[k])

\* the calculation is over with either results or an error, not both
Settled ==
    /\ ~isCalculating
    /\ \/ (results # null /\ error = null)
       \/ (results = null /\ error # null)

\* C14: a Calculate click that passed validation leaves isCalculating set
\* and error and results cleared; whenever isCalculating is set, the deferred
\* computation eventually brings a state in which isCalculating is not set
\* and exactly one of results and error is non-null.
C14_EventuallySettled ==
    /\ []((lastOp = "handleCalculate" /\ timer # null)
            => (isCalculating /\ error = null /\ results = null))
    /\ (isCalculating ~> Settled)

\* a computation that ended with results
C14_Witness ==
    /\ lastOp = "Calculation"
    /\ lastRun # null
    /\ Settled
    /\ results # null
    /\ timer = null

\* C15: a step of handleCalculate that schedules nothing (the click was
\* rejected by the validation) sets error to a validation message and leaves
\* results, isCalculating, the loaded series, the inputs and the timer as they
\* were.
C15_RejectedClickFrame ==
    [][(lastOp' = "handleCalculate" /\ timer' = null)
          => /\ error' \in ValidationErrors
             /\ results' = results
             /\ isCalculating' = isCalculating
             /\ stockData' = stockData
             /\ inputs' = inputs
             /\ isLoadingData' = isLoadingData
             /\ timer' = timer]_vars

\* the results of an earlier calculation, in state together with the error
\* of a rejected click
C15_Witness ==
    /\ lastOp = "handleCalculate"
    /\ results # null
    /\ error \in ValidationErrors
    /\ ~isCalculating
    /\ timer = null

\* the windows the loops slice for start index i
BuyWindow(data, cfg, i) == Slice(data, i, i + cfg.dcaBuyDays)
SellWindow(data, cfg, i) ==
    Slice(data, i + cfg.holdingPeriodDays - 1,
          i + cfg.holdingPeriodDays - 1 + cfg.dcaSellDays)

\* index is one of 0 .. N-1
InSeries(data, index) == 0 <= index /\ index <= Len(data) - 1

\* what the returns loop reads for each of its start indices: the buy
\* window at full length or the close at i, the sell window at full length
\* or the close at i + holdingPeriodDays - 1, nothing beyond
\* i + requiredWindow - 1, which is in the series
ReturnLoopReadsInRange(data, cfg) ==
    \A i \in 0..LastStart(data, cfg) :
       /\ InSeries(data, i)
       /\ InSeries(data, i + RequiredWindow(cfg) - 1)
       /\ IF cfg.dcaBuy
          THEN /\ Len(BuyWindow(data, cfg, i)) = cfg.dcaBuyDays
               /\ i + cfg.dcaBuyDays - 1 <= i + RequiredWindow(cfg) - 1
          ELSE TRUE
       /\ IF cfg.dcaSell
          THEN /\ Len(SellWindow(data, cfg, i)) = cfg.dcaSellDays
               /\ i + cfg.holdingPeriodDays - 1 + cfg.dcaSellDays - 1
                     = i + RequiredWindow(cfg) - 1
          ELSE i + cfg.holdingPeriodDays - 1 = i + RequiredWindow(cfg) - 1

\* what the cone loop reads: for each sampled start index the buy window at
\* full length or the close at i, and at each checkpoint a sell price for no
\* more start indices than have i + dayOffset < N
ConeLoopReadsInRange(data, cfg, starts, partials) ==
    /\ \A k \in DOMAIN starts :
          /\ InSeries(data, starts[k])
          /\ cfg.dcaBuy => Len(BuyWindow(data, cfg, starts[k])) = cfg.dcaBuyDays
    /\ \A c \in DOMAIN partials :
          Len(partials[c]) <=
              Cardinality({k \in DOMAIN starts : InSeries(data, starts[k] + Checkpoints(cfg)[c])})

\* C16: in a calculation on N >= requiredWindow closes every index the
\* returns loop and the cone loop read is in 0 .. N-1 and every averaging
\* window is read at its full length: the returns loop reads up to
\* i + requiredWindow - 1 <= N - 1, and the cone loop reads a sell price only
\* where i + dayOffset < N.
C16_ReadsInRange ==
    (lastRun # null /\ Len(stockData) >= RequiredWindow(lastRun.cfg)) =>
        /\ ReturnLoopReadsInRange(stockData, lastRun.cfg)
        /\ Len(lastRun.returns) <= Len(stockData) - RequiredWindow(lastRun.cfg) + 1
        /\ results # null =>
              ConeLoopReadsInRange(stockData, lastRun.cfg, lastRun.starts, lastRun.partials)

\* buy and sell averaging: the cone samples start indices beyond the last
\* one of the returns loop, and the last buy window ends within the series
C16_Witness ==
    /\ lastRun # null
    /\ results # null
    /\ lastRun.cfg.dcaBuy /\ lastRun.cfg.dcaSell
    /\ Len(stockData) > RequiredWindow(lastRun.cfg)
    /\ Len(lastRun.starts) > Len(lastRun.returns)
    /\ Len(BuyWindow(stockData, lastRun.cfg, lastRun.starts[Len(lastRun.starts)]))
          = lastRun.cfg.dcaBuyDays

====
